---- MODULE Spec2Model ----
(***************************************************************************)
(* Rotation / backoff / quarantine scheduling engine of server.py.         *)
(*                                                                         *)
(* Threads: the background refresh workers started by start_refresh, the   *)
(* Flask request threads (start, stop, safe refresh, quarantine reset),    *)
(* and a sequential driver that calls the health-policy functions one      *)
(* after the other.  Every statement that reads or writes shared state is  *)
(* one step, because none of _mark_success, _mark_failure,                 *)
(* _ensure_profile_state and api_quarantine_reset takes _state_lock.       *)
(***************************************************************************)
EXTENDS Integers, Sequences, FiniteSets, TLC

VARIABLES
    profile_state,    \* _profile_state: profile name -> health record
    rotation_state,   \* _rotation_state: groups, last_group, last_cycle_ts
    stop_event,       \* _stop_event
    refresh_thread,   \* _refresh_thread
    lock,             \* _state_lock: the thread inside a `with _state_lock`
    now,              \* time.time(), in seconds
    pc,               \* position of every thread
    loc,              \* locals of every thread
    advCount,         \* history: number of cursor advances so far
    cursorHist,       \* history: the last cursor values, oldest first
    epoch,            \* history: advCount when the thread derived its index
    stopPending,      \* history: stop() signalled while this worker ran
    part,             \* partition harness: input list, group count, results
    profile_proxies,  \* profile_proxies: profile name -> proxy
    disk,             \* the state file
    seen,             \* history: the in-memory states since a running save
                      \* took the lock
    activity_log,     \* _activity_log: entries named by their append number
    logCount,         \* history: number of entries appended so far
    logCalls,         \* history: number of log() calls begun
    reply,            \* the list the last GET /logs returned
    dly               \* delay harness: group size, hour, jitter, result

vars == <<profile_state, rotation_state, stop_event, refresh_thread, lock, now,
          pc, loc, advCount, cursorHist, epoch, stopPending, part,
          profile_proxies, disk, seen, activity_log, logCount, logCalls, reply,
          dly>>

----------------------------------------------------------------------------
(* Program constants (SAFETY and literals of server.py) *)

failure_quarantine_threshold == 3
failure_backoff_base == 120
max_backoff == 86400
rotation_groups == 3
max_profiles_per_cycle == 1000
max_concurrent_refreshes == 6
long_break_range == 1800
max_log_items == 2000
base_cycle_minutes == 32
min_delay_seconds == 60
jitter_seconds == 480
active_hours_start == 8
active_hours_end == 23

(* Bounds of the model *)
MaxTicks == 1          \* clock ticks in the health specification
MaxHealthAdvances == 2 \* cursor advances in the health specification
MaxAdvances == 4       \* cursor advances in the lifecycle specification
MaxPolicyTicks == 3    \* clock ticks in the policy specification
MaxFailures == 12      \* consecutive failures driven in the policy specification
MaxLen == 7            \* longest entity list given to the partitioner
MaxGroups == 6         \* largest group count given to the partitioner

TickSeconds == 600     \* seconds one clock tick of the model stands for
BootTime == 1000       \* clock at boot in the restored-state specification
MaxRestoredAdvances == 1 \* cursor advances in the restored-state specification
MaxSaveAdvances == 2   \* cursor advances in the save specification
MaxFaultAdvances == 2  \* cursor advances in the fault specification
MaxLogCalls == 4       \* log() calls in the log specification
MaxGroupSize == 7      \* largest small group size given to the delay
MaxLockAdvances == 1   \* cursor advances in the lock specification
MaxLockLogs == 1       \* log() calls in the lock specification

----------------------------------------------------------------------------
(* Threads *)

WorkerIds == <<"w1", "w2">>
Workers == {WorkerIds[i] : i \in 1..Len(WorkerIds)}
Requests == {"r1"}
Drivers == {"h"}
(* the thread that persists: the main thread at boot and at exit, the
   autosave worker in between *)
Savers == {"s"}
(* the request threads of a burst of /safe_refresh calls, in arrival order:
   app.run(threaded=True) gives every request a thread of its own *)
Callers == <<"r1", "r2", "r3", "r4", "r5", "r6", "r7">>
CallerSet == {Callers[i] : i \in 1..Len(Callers)}
Threads == Workers \cup Requests \cup Drivers \cup Savers \cup CallerSet
NoThread == "none"

(* get_logged_in_profiles: the sorted list discovery returns when it finds
   profiles; an empty list when it finds none. *)
Profiles == <<"Default", "Profile 1">>
ProfileNames == {Profiles[i] : i \in 1..Len(Profiles)}
DiscoverOutcomes == {<<>>, Profiles}

Min(a, b) == IF a <= b THEN a ELSE b
Max(a, b) == IF a >= b THEN a ELSE b

RECURSIVE Pow2(_)
Pow2(n) == IF n <= 0 THEN 1 ELSE 2 * Pow2(n - 1)

----------------------------------------------------------------------------
(* Health policy *)

DefaultRecord == [last_refresh |-> 0, failures |-> 0, next_allowed |-> 0,
                  quarantined |-> FALSE]

(* _ensure_profile_state: creates the default record of an unseen profile *)
EnsureProfileState(ps, p) ==
    IF p \in DOMAIN ps THEN ps
    ELSE [q \in (DOMAIN ps) \cup {p} |-> IF q = p THEN DefaultRecord ELSE ps[q]]

(* failure_backoff_base * (2 ** (failures - 1)), then min(backoff, 60*60*24).
   2 ** -1 is 0.5 in Python, which a racing reset of failures to 0 produces. *)
BackoffOffByOne(f) ==
    Min(failure_backoff_base * Pow2(f), max_backoff)
Backoff(f) ==
    IF f >= 1 THEN Min(failure_backoff_base * Pow2(f - 1), max_backoff)
    ELSE failure_backoff_base \div 2

(* st["failures"] >= SAFETY["failure_quarantine_threshold"] *)
QuarantineAboveThreshold(f) == f > failure_quarantine_threshold
QuarantineReached(f) == f >= failure_quarantine_threshold

(* _is_allowed_to_refresh *)
IsAllowedBackoffFirst(st, t) ==
    IF st.next_allowed > t THEN <<FALSE, "backoff">>
    ELSE IF st.quarantined THEN <<FALSE, "quarantined">>
    ELSE <<TRUE, "none">>
IsAllowedToRefresh(st, t) ==
    IF st.quarantined THEN <<FALSE, "quarantined">>
    ELSE IF st.next_allowed > t THEN <<FALSE, "backoff">>
    ELSE <<TRUE, "none">>

----------------------------------------------------------------------------
(* Rotation partitioner *)

FloorDiv(a, b) == a \div b
CeilDiv(a, b) == (a + b - 1) \div b

(* profiles[lo:hi] of Python, 0-based, clipped to the list *)
Slice(s, lo, hi) ==
    LET a == Min(lo, Len(s))
        b == Min(hi, Len(s))
    IN  IF b <= a THEN <<>> ELSE SubSeq(s, a + 1, b)

(* _compute_rotation_groups with n = max(1, _rotation_state["groups"]) *)
ComputeRotationGroups(profiles, groups) ==
    LET n == Max(1, groups)
        total == Len(profiles)
        chunk == CeilDiv(total, n)
    IN  IF total = 0 THEN [i \in 1..n |-> <<>>]
        ELSE [i \in 1..n |-> Slice(profiles, (i - 1) * chunk, i * chunk)]

(* groups[group_index] if group_index < len(groups) else [],
   then [:max_profiles_per_cycle] *)
ActiveGroup(groups, group_index) ==
    LET g == IF group_index < Len(groups) THEN groups[group_index + 1] ELSE <<>>
    IN  Slice(g, 0, max_profiles_per_cycle)

(* (last_group + 1) % groups *)
NextIndexSkips(last, groups) == (last + 2) % groups
NextIndexNoWrap(last, groups) == last + 1
NextIndex(last, groups) == (last + 1) % groups

----------------------------------------------------------------------------
(* State after boot with no saved state file *)

(* why: the reason _is_allowed_to_refresh returned last *)
LocInit == [grp |-> <<>>, i |-> 0, gidx |-> -1, prof |-> "", tmp |-> 0,
            why |-> ""]

DelayIdle == [size |-> 0, hour |-> 0, jitter |-> 0, out |-> 0, done |-> FALSE]

PartIdle == [list |-> <<>>, n |-> 1, out |-> <<>>, again |-> <<>>, calls |-> 0]

RotationInit == [groups |-> rotation_groups, last_group |-> -1, last_cycle_ts |-> 0]

NoProxies == [q \in {} |-> ""]
NoRecords == [q \in {} |-> DefaultRecord]

(* no state file; a file just opened for writing has the same empty content *)
NoFile == [exists |-> FALSE, complete |-> FALSE, rotation_state |-> RotationInit,
           profile_state |-> NoRecords, profile_proxies |-> NoProxies, ts |-> 0]

LogVars == <<activity_log, logCount, logCalls, reply>>

Persist == <<profile_proxies, disk, LogVars, dly>>

LogInit ==
    /\ activity_log = <<>>
    /\ logCount = 0
    /\ logCalls = 0
    /\ reply = <<>>

(* positions of _save_state after its `with _state_lock` *)
SavingPcs == {"sv_open", "sv_rot", "sv_prof", "sv_prox"}

Memory == <<rotation_state, profile_state, profile_proxies>>

(* while a save runs, every in-memory state from the instant it held the
   lock is recorded *)
Track ==
    seen' = IF \E s \in Savers : pc'[s] \in SavingPcs
            THEN (IF \E s \in Savers : pc[s] \in SavingPcs THEN seen ELSE {})
                     \cup {Memory'}
            ELSE {}

EngineInit ==
    /\ profile_state = [q \in {} |-> DefaultRecord]
    /\ rotation_state = RotationInit
    /\ stop_event = FALSE
    /\ refresh_thread = NoThread
    /\ lock = NoThread
    /\ now = 0
    /\ loc = [t \in Threads |-> LocInit]
    /\ advCount = 0
    /\ cursorHist = <<-1>>
    /\ epoch = [t \in Threads |-> -1]
    /\ stopPending = [w \in Workers |-> FALSE]
    /\ profile_proxies = NoProxies
    /\ disk = NoFile
    /\ seen = {}
    /\ LogInit

Init ==
    /\ EngineInit
    /\ pc = [t \in Threads |-> IF t \in Workers THEN "dead" ELSE "idle"]
    /\ part = PartIdle
    /\ dly = DelayIdle

----------------------------------------------------------------------------
(* Helpers for the steps *)

Goto(t, l) == pc' = [pc EXCEPT ![t] = l]

SetField(p, f, v) ==
    profile_state' = [profile_state EXCEPT ![p] = [@ EXCEPT ![f] = v]]

(* `with _state_lock:` can be entered *)
LockAlwaysFree == TRUE
LockFree == lock = NoThread

AliveWorkers == {w \in Workers : pc[w] # "dead"}

(* where a health-policy call returns to: the per-entity sleep of a pass,
   or the driver's next call *)
AfterMark(t) == IF t \in Drivers THEN "idle" ELSE "sleep"

(* where a pass ends: the worker's pause before the next cycle, or the
   request's response *)
AfterPass(t) == IF t \in Workers THEN "w_done" ELSE "idle"

Shared == <<profile_state, rotation_state, stop_event, refresh_thread, lock>>
History == <<advCount, cursorHist, epoch, stopPending>>

----------------------------------------------------------------------------
(* _mark_success, statement by statement *)

MsLast(t) ==
    /\ pc[t] = "ms_last"
    /\ LET p == loc[t].prof
           ps == EnsureProfileState(profile_state, p)
       IN  profile_state' = [ps EXCEPT ![p].last_refresh = now]
    /\ Goto(t, "ms_fail")
    /\ UNCHANGED <<rotation_state, stop_event, refresh_thread, lock, now, loc,
                   History, part, Persist>>
    /\ Track

MsFail(t) ==
    /\ pc[t] = "ms_fail"
    /\ SetField(loc[t].prof, "failures", 0)
    /\ Goto(t, "ms_next")
    /\ UNCHANGED <<rotation_state, stop_event, refresh_thread, lock, now, loc,
                   History, part, Persist>>
    /\ Track

MsNext(t) ==
    /\ pc[t] = "ms_next"
    /\ SetField(loc[t].prof, "next_allowed", now)
    /\ Goto(t, "ms_quar")
    /\ UNCHANGED <<rotation_state, stop_event, refresh_thread, lock, now, loc,
                   History, part, Persist>>
    /\ Track

MsQuar(t) ==
    /\ pc[t] = "ms_quar"
    /\ SetField(loc[t].prof, "quarantined", FALSE)
    /\ Goto(t, AfterMark(t))
    /\ UNCHANGED <<rotation_state, stop_event, refresh_thread, lock, now, loc,
                   History, part, Persist>>
    /\ Track

MarkSuccess(t) == MsLast(t) \/ MsFail(t) \/ MsNext(t) \/ MsQuar(t)

----------------------------------------------------------------------------
(* _mark_failure, statement by statement; the increment reads, then writes *)

MfRead(t) ==
    /\ pc[t] = "mf_read"
    /\ LET p == loc[t].prof
           ps == EnsureProfileState(profile_state, p)
       IN  /\ profile_state' = ps
           /\ loc' = [loc EXCEPT ![t].tmp = ps[p].failures]
    /\ Goto(t, "mf_write")
    /\ UNCHANGED <<rotation_state, stop_event, refresh_thread, lock, now,
                   History, part, Persist>>
    /\ Track

MfWrite(t) ==
    /\ pc[t] = "mf_write"
    /\ SetField(loc[t].prof, "failures", loc[t].tmp + 1)
    /\ Goto(t, "mf_backoff")
    /\ UNCHANGED <<rotation_state, stop_event, refresh_thread, lock, now, loc,
                   History, part, Persist>>
    /\ Track

MfBackoff(t) ==
    /\ pc[t] = "mf_backoff"
    /\ loc' = [loc EXCEPT ![t].tmp = Backoff(profile_state[loc[t].prof].failures)]
    /\ Goto(t, "mf_next")
    /\ UNCHANGED <<Shared, now, History, part, Persist>>
    /\ Track

MfNext(t) ==
    /\ pc[t] = "mf_next"
    /\ SetField(loc[t].prof, "next_allowed", now + loc[t].tmp)
    /\ Goto(t, "mf_check")
    /\ UNCHANGED <<rotation_state, stop_event, refresh_thread, lock, now, loc,
                   History, part, Persist>>
    /\ Track

MfCheck(t) ==
    /\ pc[t] = "mf_check"
    /\ IF QuarantineReached(profile_state[loc[t].prof].failures)
       THEN Goto(t, "mf_quar")
       ELSE Goto(t, AfterMark(t))
    /\ UNCHANGED <<Shared, now, loc, History, part, Persist>>
    /\ Track

MfQuar(t) ==
    /\ pc[t] = "mf_quar"
    /\ SetField(loc[t].prof, "quarantined", TRUE)
    /\ Goto(t, AfterMark(t))
    /\ UNCHANGED <<rotation_state, stop_event, refresh_thread, lock, now, loc,
                   History, part, Persist>>
    /\ Track

MarkFailure(t) ==
    MfRead(t) \/ MfWrite(t) \/ MfBackoff(t) \/ MfNext(t) \/ MfCheck(t) \/ MfQuar(t)

----------------------------------------------------------------------------
(* api_quarantine_reset, statement by statement *)

RqGet(t) ==
    /\ pc[t] = "rq_get"
    /\ IF loc[t].prof \in DOMAIN profile_state
       THEN Goto(t, "rq_fail")
       ELSE Goto(t, "rq_404")
    /\ UNCHANGED <<Shared, now, loc, History, part, Persist>>
    /\ Track

RqNotFound(t) ==
    /\ pc[t] = "rq_404"
    /\ Goto(t, "idle")
    /\ loc' = [loc EXCEPT ![t] = LocInit]
    /\ UNCHANGED <<Shared, now, History, part, Persist>>
    /\ Track

RqFail(t) ==
    /\ pc[t] = "rq_fail"
    /\ SetField(loc[t].prof, "failures", 0)
    /\ Goto(t, "rq_next")
    /\ UNCHANGED <<rotation_state, stop_event, refresh_thread, lock, now, loc,
                   History, part, Persist>>
    /\ Track

RqNextKeeps(t) ==
    /\ pc[t] = "rq_next"
    /\ Goto(t, "rq_quar")
    /\ UNCHANGED <<Shared, now, loc, History, part, Persist>>
    /\ Track

RqNext(t) ==
    /\ pc[t] = "rq_next"
    /\ SetField(loc[t].prof, "next_allowed", 0)
    /\ Goto(t, "rq_quar")
    /\ UNCHANGED <<rotation_state, stop_event, refresh_thread, lock, now, loc,
                   History, part, Persist>>
    /\ Track

RqQuar(t) ==
    /\ pc[t] = "rq_quar"
    /\ SetField(loc[t].prof, "quarantined", FALSE)
    /\ Goto(t, "idle")
    /\ loc' = [loc EXCEPT ![t] = LocInit]
    /\ UNCHANGED <<rotation_state, stop_event, refresh_thread, lock, now,
                   History, part, Persist>>
    /\ Track

QuarantineReset(t) ==
    RqGet(t) \/ RqNotFound(t) \/ RqFail(t) \/ RqNext(t) \/ RqQuar(t)

----------------------------------------------------------------------------
(* One pass over the active group: the for loop of _refresh_worker and of
   _safe_refresh_cycle_once *)

(* randbelow(60 * 30): the smallest and the largest draw *)
BreakExtras == {0, long_break_range - 1}

(* loop head: the worker's `if _stop_event.is_set(): break`, then the next
   profile; the safe pass has no such check *)
Iter(t) ==
    /\ pc[t] = "iter"
    /\ IF t \in Workers /\ stop_event
       THEN /\ Goto(t, AfterPass(t))
            /\ UNCHANGED <<loc, epoch>>
       ELSE IF loc[t].i > Len(loc[t].grp)
       THEN /\ Goto(t, AfterPass(t))
            /\ loc' = [loc EXCEPT ![t] = IF t \in Workers THEN @ ELSE LocInit]
            /\ epoch' = [epoch EXCEPT ![t] = IF t \in Workers THEN @ ELSE -1]
       ELSE /\ Goto(t, "elig")
            /\ loc' = [loc EXCEPT ![t].prof = loc[t].grp[loc[t].i]]
            /\ UNCHANGED epoch
    /\ UNCHANGED <<Shared, now, advCount, cursorHist, stopPending, part, Persist>>
    /\ Track

(* _is_allowed_to_refresh, then the long-break draw and the outcome of the
   try block: a raised exception leads to _mark_failure *)
Elig(t, outcomes) ==
    /\ pc[t] = "elig"
    /\ LET p == loc[t].prof
           ps == EnsureProfileState(profile_state, p)
       IN  /\ profile_state' = ps
           /\ LET res == IsAllowedToRefresh(ps[p], now)
              IN  IF res[1]
                  THEN /\ \E next \in outcomes : Goto(t, next)
                       /\ loc' = [loc EXCEPT ![t].why = res[2]]
                  ELSE /\ Goto(t, "iter")
                       /\ loc' = [loc EXCEPT ![t].i = @ + 1, ![t].why = res[2]]
    /\ UNCHANGED <<rotation_state, stop_event, refresh_thread, lock, now,
                   History, part, Persist>>
    /\ Track

(* the long break: next_allowed = time.time() + extra; continue *)
Brk(t) ==
    /\ pc[t] = "brk"
    /\ \E extra \in BreakExtras :
         LET p == loc[t].prof
             ps == EnsureProfileState(profile_state, p)
         IN  profile_state' = [ps EXCEPT ![p].next_allowed = now + extra]
    /\ Goto(t, IF t \in Drivers THEN "idle" ELSE "iter")
    /\ loc' = [loc EXCEPT ![t].i = IF t \in Drivers THEN @ ELSE @ + 1]
    /\ UNCHANGED <<rotation_state, stop_event, refresh_thread, lock, now,
                   History, part, Persist>>
    /\ Track

(* time.sleep(delay_per_profile) *)
Sleep(t) ==
    /\ pc[t] = "sleep"
    /\ Goto(t, "iter")
    /\ loc' = [loc EXCEPT ![t].i = @ + 1]
    /\ UNCHANGED <<Shared, now, History, part, Persist>>
    /\ Track

(* what follows an eligible profile: the long break, the refresh that
   succeeds, the refresh that raises *)
Outcomes == {"brk", "ms_last", "mf_read"}

Pass(t) ==
    \/ Iter(t) \/ Elig(t, Outcomes) \/ Brk(t) \/ MarkSuccess(t) \/ MarkFailure(t)
    \/ Sleep(t)

(* a pass in which no long break is drawn and every refresh succeeds *)
PassOk(t) ==
    Iter(t) \/ Elig(t, {"ms_last"}) \/ MarkSuccess(t) \/ Sleep(t)

----------------------------------------------------------------------------
(* _refresh_worker *)

(* `while not _stop_event.is_set()`, then get_logged_in_profiles *)
WLoop(w, discover) ==
    /\ pc[w] = "w_loop"
    /\ IF stop_event
       THEN /\ Goto(w, "dead")
            /\ loc' = [loc EXCEPT ![w] = LocInit]
            /\ stopPending' = [stopPending EXCEPT ![w] = FALSE]
       ELSE /\ \E d \in discover :
                 IF d = <<>>
                 THEN Goto(w, "w_sleep_empty") /\ UNCHANGED loc
                 ELSE Goto(w, "adv_acquire") /\ loc' = [loc EXCEPT ![w].grp = d]
            /\ UNCHANGED stopPending
    /\ UNCHANGED <<Shared, now, advCount, cursorHist, epoch, part, Persist>>
    /\ Track

(* time.sleep(10); continue *)
WSleepEmpty(w) ==
    /\ pc[w] = "w_sleep_empty"
    /\ Goto(w, "w_loop")
    /\ UNCHANGED <<Shared, now, loc, History, part, Persist>>
    /\ Track

(* _next_rotation_group_index: with _state_lock *)
AdvAcquire(w, max) ==
    /\ pc[w] = "adv_acquire"
    /\ LockFree
    /\ advCount < max
    /\ lock' = w
    /\ Goto(w, "adv_read")
    /\ UNCHANGED <<profile_state, rotation_state, stop_event, refresh_thread,
                   now, loc, History, part, Persist>>
    /\ Track

(* the right-hand side (last_group + 1) % groups *)
AdvRead(w) ==
    /\ pc[w] = "adv_read"
    /\ loc' = [loc EXCEPT ![w].tmp =
                 NextIndex(rotation_state.last_group, rotation_state.groups)]
    /\ epoch' = [epoch EXCEPT ![w] = advCount]
    /\ Goto(w, "adv_write")
    /\ UNCHANGED <<Shared, now, advCount, cursorHist, stopPending, part, Persist>>
    /\ Track

(* the store, the time stamp, the return and the release; then the active
   group of the partition computed before the call *)
AdvWrite(w) ==
    /\ pc[w] = "adv_write"
    /\ rotation_state' = [rotation_state EXCEPT !.last_group = loc[w].tmp,
                                                !.last_cycle_ts = now]
    /\ lock' = NoThread
    /\ LET idx == rotation_state'.last_group
           groups == ComputeRotationGroups(loc[w].grp, rotation_state.groups)
       IN  loc' = [loc EXCEPT ![w] = [grp |-> ActiveGroup(groups, idx), i |-> 1,
                                      gidx |-> idx, prof |-> "", tmp |-> 0,
                                      why |-> ""]]
    /\ advCount' = advCount + 1
    /\ cursorHist' = LET h == Append(cursorHist, rotation_state'.last_group)
                     IN  IF Len(h) > rotation_groups + 1 THEN Tail(h) ELSE h
    /\ Goto(w, "iter")
    /\ UNCHANGED <<profile_state, stop_event, refresh_thread, now, epoch,
                   stopPending, part, Persist>>
    /\ Track

(* time.sleep(5) after the cycle *)
WDone(w) ==
    /\ pc[w] = "w_done"
    /\ Goto(w, "w_loop")
    /\ loc' = [loc EXCEPT ![w] = LocInit]
    /\ epoch' = [epoch EXCEPT ![w] = -1]
    /\ UNCHANGED <<Shared, now, advCount, cursorHist, stopPending, part, Persist>>
    /\ Track

Advance(w, max) == AdvAcquire(w, max) \/ AdvRead(w) \/ AdvWrite(w)

(* where the body of the loop's `try` can raise past the inner handler:
   partitioning, group selection inside the lock, the loop head of the pass,
   the eligibility check, the long break, the inner handler itself, the
   sleep *)
RaisePcs == {"adv_acquire", "adv_read", "iter", "elig", "brk", "mf_read", "sleep"}

(* an unexpected exception reaches `except Exception as e` of the loop; a
   `with _state_lock` it leaves releases the lock *)
WRaise(w) ==
    /\ pc[w] \in RaisePcs
    /\ lock' = IF lock = w THEN NoThread ELSE lock
    /\ loc' = [loc EXCEPT ![w] = [LocInit EXCEPT !.why = "raised"]]
    /\ epoch' = [epoch EXCEPT ![w] = -1]
    /\ Goto(w, "w_err")
    /\ UNCHANGED <<profile_state, rotation_state, stop_event, refresh_thread, now,
                   advCount, cursorHist, stopPending, part, Persist>>
    /\ Track

(* log(f"Refresh loop error: {e}"); time.sleep(10); back to the while *)
WErrDies(w) ==
    /\ pc[w] = "w_err"
    /\ Goto(w, "dead")
    /\ UNCHANGED <<Shared, now, loc, History, part, Persist>>
    /\ Track

WErr(w) ==
    /\ pc[w] = "w_err"
    /\ Goto(w, "w_loop")
    /\ UNCHANGED <<Shared, now, loc, History, part, Persist>>
    /\ Track

----------------------------------------------------------------------------
(* Requests of the control surface *)

(* a request arrives: /start_refresh, /stop_refresh, /safe_refresh *)
Arrive(r, ops) ==
    /\ pc[r] = "idle"
    /\ \E op \in ops : Goto(r, op)
    /\ UNCHANGED <<Shared, now, loc, History, part, Persist>>
    /\ Track

(* /quarantine/reset with a profile name *)
ArriveReset(r) ==
    /\ pc[r] = "idle"
    /\ \E p \in ProfileNames : loc' = [loc EXCEPT ![r].prof = p]
    /\ Goto(r, "rq_get")
    /\ UNCHANGED <<Shared, now, History, part, Persist>>
    /\ Track

(* start_refresh: `if _refresh_thread and _refresh_thread.is_alive(): return` *)
StartCheck(r) ==
    /\ pc[r] = "start_check"
    /\ IF refresh_thread # NoThread /\ pc[refresh_thread] # "dead"
       THEN Goto(r, "idle")
       ELSE Goto(r, "start_launch")
    /\ UNCHANGED <<Shared, now, loc, History, part, Persist>>
    /\ Track

(* _stop_event.clear(); _refresh_thread = Thread(...); start() *)
StartLaunch(r, ids) ==
    /\ pc[r] = "start_launch"
    /\ \E k \in 1..Len(ids) :
         /\ pc[ids[k]] = "dead"
         /\ \A j \in 1..(k - 1) : pc[ids[j]] # "dead"
         /\ refresh_thread' = ids[k]
         /\ pc' = [pc EXCEPT ![ids[k]] = "w_loop", ![r] = "idle"]
    /\ stop_event' = FALSE
    /\ UNCHANGED <<profile_state, rotation_state, lock, now, loc, History, part, Persist>>
    /\ Track

(* stop_refresh: `if _refresh_thread:` then _stop_event.set() *)
StopCheck(r) ==
    /\ pc[r] = "stop_check"
    /\ IF refresh_thread = NoThread
       THEN /\ Goto(r, "idle")
            /\ UNCHANGED <<stop_event, stopPending>>
       ELSE /\ Goto(r, "stop_join")
            /\ stop_event' = TRUE
            /\ stopPending' = [w \in Workers |->
                 IF w = refresh_thread /\ pc[w] # "dead" THEN TRUE
                 ELSE stopPending[w]]
    /\ UNCHANGED <<profile_state, rotation_state, refresh_thread, lock, now, loc,
                   advCount, cursorHist, epoch, part, Persist>>
    /\ Track

(* positions in which a worker stays longer than the join's 5 seconds *)
Sleeping == {"sleep", "w_sleep_empty", "w_done", "adv_acquire", "w_err"}

(* _refresh_thread.join(timeout=5) returns, the thread ended or not;
   _refresh_thread = None *)
StopJoin(r) ==
    /\ pc[r] = "stop_join"
    /\ refresh_thread # NoThread
    /\ pc[refresh_thread] \in Sleeping \cup {"dead"}
    /\ refresh_thread' = NoThread
    /\ Goto(r, "idle")
    /\ UNCHANGED <<profile_state, rotation_state, stop_event, lock, now, loc,
                   History, part, Persist>>
    /\ Track

(* _safe_refresh_cycle_once: get_logged_in_profiles *)
SafeDiscover(r, discover) ==
    /\ pc[r] = "safe_discover"
    /\ \E d \in discover :
         IF d = <<>>
         THEN Goto(r, "idle") /\ UNCHANGED loc
         ELSE Goto(r, "safe_peek") /\ loc' = [loc EXCEPT ![r].grp = d]
    /\ UNCHANGED <<Shared, now, History, part, Persist>>
    /\ Track

(* api_dashboard_summary: reads last_group and last_cycle_ts under the lock,
   counts the quarantined and the backing-off records, responds *)
Summary(r) ==
    /\ pc[r] = "summary"
    /\ LockFree
    /\ Goto(r, "idle")
    /\ UNCHANGED <<Shared, now, loc, History, part, Persist>>
    /\ Track

(* with _state_lock: next_idx = (last_group + 1) % groups *)
SafePeekAdvances(r) ==
    /\ pc[r] = "safe_peek"
    /\ LockFree
    /\ LET idx == NextIndex(rotation_state.last_group, rotation_state.groups)
           groups == ComputeRotationGroups(loc[r].grp, rotation_state.groups)
       IN  /\ loc' = [loc EXCEPT ![r] = [grp |-> ActiveGroup(groups, idx), i |-> 1,
                                         gidx |-> idx, prof |-> "", tmp |-> 0,
                                         why |-> ""]]
           /\ rotation_state' = [rotation_state EXCEPT !.last_group = idx]
    /\ epoch' = [epoch EXCEPT ![r] = advCount]
    /\ Goto(r, "iter")
    /\ UNCHANGED <<profile_state, stop_event, refresh_thread, lock, now, advCount,
                   cursorHist, stopPending, part, Persist>>
    /\ Track

SafePeek(r) ==
    /\ pc[r] = "safe_peek"
    /\ LockFree
    /\ LET idx == NextIndex(rotation_state.last_group, rotation_state.groups)
           groups == ComputeRotationGroups(loc[r].grp, rotation_state.groups)
       IN  loc' = [loc EXCEPT ![r] = [grp |-> ActiveGroup(groups, idx), i |-> 1,
                                      gidx |-> idx, prof |-> "", tmp |-> 0,
                                      why |-> ""]]
    /\ epoch' = [epoch EXCEPT ![r] = advCount]
    /\ Goto(r, "iter")
    /\ UNCHANGED <<Shared, now, advCount, cursorHist, stopPending, part, Persist>>
    /\ Track

(* the clock *)
Tick(step, max) ==
    /\ now < max * step
    /\ now' = now + step
    /\ UNCHANGED <<Shared, pc, loc, History, part, Persist>>
    /\ Track

----------------------------------------------------------------------------
(* Lifecycle and rotation: two worker threads, one request thread that
   starts, stops, runs safe passes, asks for the summary and resets
   quarantine; every refresh succeeds *)

NextLifecycle ==
    \/ \E w \in Workers :
         \/ WLoop(w, DiscoverOutcomes) \/ WSleepEmpty(w) \/ Advance(w, MaxAdvances) \/ WDone(w)
         \/ PassOk(w)
    \/ \E r \in Requests :
         \/ Arrive(r, {"start_check", "stop_check", "safe_discover", "summary"})
         \/ StartCheck(r) \/ StartLaunch(r, WorkerIds)
         \/ StopCheck(r) \/ StopJoin(r)
         \/ SafeDiscover(r, DiscoverOutcomes) \/ SafePeek(r)
         \/ PassOk(r)
         \/ Summary(r) \/ ArriveReset(r) \/ QuarantineReset(r)

SpecLifecycle == Init /\ [][NextLifecycle]_vars

(* Health records: one worker thread, one request thread that starts the
   worker, runs safe passes and resets quarantine; refreshes succeed, raise
   or are put off by a long break; the clock advances *)

NextHealth ==
    \/ WLoop("w1", {Profiles}) \/ Advance("w1", MaxHealthAdvances) \/ WDone("w1") \/ Pass("w1")
    \/ \E r \in Requests :
         \/ Arrive(r, {"start_check", "safe_discover"}) \/ ArriveReset(r)
         \/ StartCheck(r) \/ StartLaunch(r, <<"w1">>)
         \/ SafeDiscover(r, {Profiles}) \/ SafePeek(r)
         \/ QuarantineReset(r) \/ Pass(r)
    \/ Tick(TickSeconds, MaxTicks)

SpecHealth == Init /\ [][NextHealth]_vars

(* Health policy alone: a sequential caller applies success, failure, long
   break and quarantine reset to one record, one call after the other,
   whatever the record's eligibility; the clock advances in seconds *)

DriverProfiles == {"Default"}

(* the calls made for the other profile: a success and a quarantine reset *)
OtherCalls == {"ms_last", "rq_get"}

Fails(ps, p) == IF p \in DOMAIN ps THEN ps[p].failures ELSE 0
Quar(ps, p) == IF p \in DOMAIN ps THEN ps[p].quarantined ELSE FALSE

DriverCall(h) ==
    /\ pc[h] = "idle"
    /\ \E p \in ProfileNames, call \in Outcomes \cup {"rq_get"} :
         /\ p \notin DriverProfiles => call \in OtherCalls
         /\ call = "mf_read" => Fails(profile_state, p) < MaxFailures
         /\ loc' = [loc EXCEPT ![h].prof = p]
         /\ Goto(h, call)
    /\ UNCHANGED <<Shared, now, History, part, Persist>>
    /\ Track

NextPolicy ==
    \/ \E h \in Drivers :
         \/ DriverCall(h) \/ MarkSuccess(h) \/ MarkFailure(h) \/ Brk(h)
         \/ QuarantineReset(h)
    \/ Tick(1, MaxPolicyTicks)

SpecPolicy == Init /\ [][NextPolicy]_vars

(* Partitioner alone: _compute_rotation_groups is called twice on a sorted
   entity list, as the background loop and a safe pass each call it, for
   every list of up to MaxLen entities and every group count up to MaxGroups *)

EntityPool == <<"a", "b", "c", "d", "e", "f", "g", "h", "i", "j">>

RECURSIVE ListOf(_)
ListOf(S) ==
    IF S = {} THEN <<>>
    ELSE LET m == CHOOSE x \in S : \A y \in S : x <= y
         IN  <<EntityPool[m]>> \o ListOf(S \ {m})

InitPartition ==
    /\ EngineInit
    /\ pc = [t \in Threads |-> IF t \in Workers THEN "dead" ELSE "idle"]
    /\ \E S \in SUBSET (1..MaxLen), n \in 1..MaxGroups :
         part = [list |-> ListOf(S), n |-> n, out |-> <<>>, again |-> <<>>,
                 calls |-> 0]
    /\ dly = DelayIdle

PartitionCall ==
    /\ part.calls = 0
    /\ part' = [part EXCEPT !.out = ComputeRotationGroups(part.list, part.n),
                            !.calls = 1]
    /\ UNCHANGED <<Shared, now, pc, loc, History, Persist>>
    /\ Track

PartitionAgain ==
    /\ part.calls = 1
    /\ part' = [part EXCEPT !.again = ComputeRotationGroups(part.list, part.n),
                            !.calls = 2]
    /\ UNCHANGED <<Shared, now, pc, loc, History, Persist>>
    /\ Track

NextPartition == PartitionCall \/ PartitionAgain

SpecPartition == InitPartition /\ [][NextPartition]_vars

(* Restart: the engine boots at BootTime and _load_state restores the
   record an earlier run saved for "Default": none, healthy after a success,
   backing off after a second failure, past the backoff of a second failure,
   quarantined by a third failure with the backoff running or over.  One
   worker thread and one request thread as in the health specification; the
   clock stands still *)

FailedRecord(f, at) ==
    [last_refresh |-> 0, failures |-> f, next_allowed |-> at + Backoff(f),
     quarantined |-> QuarantineReached(f)]

RestoredRecords ==
    {DefaultRecord,
     FailedRecord(2, BootTime - 100), FailedRecord(2, 0),
     FailedRecord(3, BootTime - 100), FailedRecord(3, 0)}

InitRestored ==
    /\ \/ profile_state = [q \in {} |-> DefaultRecord]
       \/ \E rec \in RestoredRecords :
             profile_state = [q \in {"Default"} |-> rec]
    /\ rotation_state = RotationInit
    /\ stop_event = FALSE
    /\ refresh_thread = NoThread
    /\ lock = NoThread
    /\ now = BootTime
    /\ loc = [t \in Threads |-> LocInit]
    /\ advCount = 0
    /\ cursorHist = <<-1>>
    /\ epoch = [t \in Threads |-> -1]
    /\ stopPending = [w \in Workers |-> FALSE]
    /\ profile_proxies = NoProxies
    /\ disk = NoFile
    /\ seen = {}
    /\ LogInit
    /\ pc = [t \in Threads |-> IF t \in Workers THEN "dead" ELSE "idle"]
    /\ part = PartIdle
    /\ dly = DelayIdle

NextRestored ==
    \/ WLoop("w1", {Profiles}) \/ Advance("w1", MaxRestoredAdvances)
    \/ WDone("w1") \/ Pass("w1")
    \/ \E r \in Requests :
         \/ Arrive(r, {"start_check", "safe_discover"}) \/ ArriveReset(r)
         \/ StartCheck(r) \/ StartLaunch(r, <<"w1">>)
         \/ SafeDiscover(r, {Profiles}) \/ SafePeek(r)
         \/ QuarantineReset(r) \/ Pass(r)

SpecRestored == InitRestored /\ [][NextRestored]_vars

(* Faults: after a boot that restored the health records, one background
   loop whose passes succeed, fail or raise unexpectedly, and one request
   thread that starts and stops it *)
NextFaults ==
    \/ WLoop("w1", DiscoverOutcomes) \/ WSleepEmpty("w1")
    \/ Advance("w1", MaxFaultAdvances) \/ WDone("w1") \/ Pass("w1")
    \/ WRaise("w1") \/ WErr("w1")
    \/ \E r \in Requests :
         \/ Arrive(r, {"start_check", "stop_check"})
         \/ StartCheck(r) \/ StartLaunch(r, <<"w1">>)
         \/ StopCheck(r) \/ StopJoin(r)

SpecFaults == InitRestored /\ [][NextFaults]_vars

(* Human-like scheduling: the delay between two entities of a pass *)
ActiveHoursInclusive(h) ==
    IF active_hours_start <= active_hours_end
    THEN active_hours_start <= h /\ h <= active_hours_end
    ELSE h >= active_hours_start \/ h < active_hours_end

IsWithinActiveHours(h) ==
    IF active_hours_start <= active_hours_end
    THEN active_hours_start <= h /\ h < active_hours_end
    ELSE h >= active_hours_start \/ h < active_hours_end

(* _compute_delay_per_profile(total_profiles) with the draw of
   secrets.randbelow(2 * jitter_seconds + 1) and the hour given; `//` and
   int() of a positive product both round down *)
ComputeDelayPerProfile(total_profiles, draw, h) ==
    IF total_profiles <= 0
    THEN min_delay_seconds
    ELSE LET base == Max(min_delay_seconds,
                            (base_cycle_minutes * 60) \div total_profiles)
             jitter == draw - jitter_seconds
             delay == Max(min_delay_seconds, base + jitter)
         IN  IF ~IsWithinActiveHours(h) THEN (delay * 3) \div 2 ELSE delay

(* the group sizes of the delay specification: the small ones and the
   largest a fleet of max_profiles_per_cycle can give *)
DelaySizes == (0..MaxGroupSize) \cup {max_profiles_per_cycle}

InitDelay ==
    /\ EngineInit
    /\ pc = [t \in Threads |-> IF t \in Workers THEN "dead" ELSE "idle"]
    /\ part = PartIdle
    /\ \E n \in DelaySizes, h \in 0..23 :
         dly = [DelayIdle EXCEPT !.size = n, !.hour = h]

(* the call of both passes:
   _compute_delay_per_profile(total_in_group if total_in_group > 0 else 1) *)
DelayCall ==
    /\ ~dly.done
    /\ \E draw \in 0..(2 * jitter_seconds) :
         dly' = [dly EXCEPT
                   !.jitter = draw - jitter_seconds,
                   !.out = ComputeDelayPerProfile(
                               IF dly.size > 0 THEN dly.size ELSE 1,
                               draw, dly.hour),
                   !.done = TRUE]
    /\ UNCHANGED <<Shared, now, pc, loc, History, part, profile_proxies, disk,
                   LogVars>>
    /\ Track

NextDelay == DelayCall

SpecDelay == InitDelay /\ [][NextDelay]_vars

(* The activity log.  log(msg): the line is built, then under the lock it
   is appended and the list trimmed, then it is printed. *)
LogTrimDropsNewest(l) ==
    IF Len(l) > max_log_items THEN SubSeq(l, 1, max_log_items) ELSE l

LogTrim(l) ==
    IF Len(l) > max_log_items
    THEN SubSeq(l, Len(l) - max_log_items + 1, Len(l))
    ELSE l

LgArrive(t, max) ==
    /\ pc[t] = "idle"
    /\ logCalls < max
    /\ logCalls' = logCalls + 1
    /\ Goto(t, "lg_acquire")
    /\ UNCHANGED <<Shared, now, loc, History, part, profile_proxies, disk,
                   activity_log, logCount, reply, dly>>
    /\ Track

LgAcquire(t) ==
    /\ pc[t] = "lg_acquire"
    /\ LockFree
    /\ lock' = t
    /\ Goto(t, "lg_append")
    /\ UNCHANGED <<profile_state, rotation_state, stop_event, refresh_thread,
                   now, loc, History, part, Persist>>
    /\ Track

LgAppend(t) ==
    /\ pc[t] = "lg_append"
    /\ activity_log' = Append(activity_log, logCount + 1)
    /\ logCount' = logCount + 1
    /\ Goto(t, "lg_trim")
    /\ UNCHANGED <<Shared, now, loc, History, part, profile_proxies, disk,
                   logCalls, reply, dly>>
    /\ Track

LgTrimKeepsLock(t) ==
    /\ pc[t] = "lg_trim"
    /\ activity_log' = LogTrim(activity_log)
    /\ Goto(t, "lg_print")
    /\ UNCHANGED <<Shared, now, loc, History, part, profile_proxies, disk,
                   logCount, logCalls, reply, dly>>
    /\ Track

LgTrim(t) ==
    /\ pc[t] = "lg_trim"
    /\ activity_log' = LogTrim(activity_log)
    /\ lock' = NoThread
    /\ Goto(t, "lg_print")
    /\ UNCHANGED <<profile_state, rotation_state, stop_event, refresh_thread,
                   now, loc, History, part, profile_proxies, disk,
                   logCount, logCalls, reply, dly>>
    /\ Track

LgPrint(t) ==
    /\ pc[t] = "lg_print"
    /\ Goto(t, "idle")
    /\ UNCHANGED <<Shared, now, loc, History, part, Persist>>
    /\ Track

Log(t, max) ==
    LgArrive(t, max) \/ LgAcquire(t) \/ LgAppend(t) \/ LgTrim(t) \/ LgPrint(t)

(* api_logs: list(_activity_log) under the lock *)
ApiLogs(r) ==
    /\ pc[r] = "api_logs"
    /\ LockFree
    /\ reply' = activity_log
    /\ Goto(r, "idle")
    /\ UNCHANGED <<Shared, now, loc, History, part, profile_proxies, disk,
                   activity_log, logCount, logCalls, dly>>
    /\ Track

Loggers == Requests \cup Drivers \cup Savers

(* the log after `k` calls of log() that have returned *)
LogAfter(k) ==
    /\ activity_log = LogTrim([i \in 1..k |-> i])
    /\ logCount = k
    /\ logCalls = 0
    /\ reply = <<>>

(* The log specification starts with the log empty or one entry short of
   the bound; three threads log and one of them also reads the log. *)
InitLog ==
    /\ profile_state = NoRecords
    /\ rotation_state = RotationInit
    /\ stop_event = FALSE
    /\ refresh_thread = NoThread
    /\ lock = NoThread
    /\ now = 0
    /\ loc = [t \in Threads |-> LocInit]
    /\ advCount = 0
    /\ cursorHist = <<-1>>
    /\ epoch = [t \in Threads |-> -1]
    /\ stopPending = [w \in Workers |-> FALSE]
    /\ profile_proxies = NoProxies
    /\ disk = NoFile
    /\ seen = {}
    /\ \E k \in {0, max_log_items - 1} : LogAfter(k)
    /\ pc = [t \in Threads |-> IF t \in Workers THEN "dead" ELSE "idle"]
    /\ part = PartIdle
    /\ dly = DelayIdle

NextLog ==
    \/ \E t \in Loggers : Log(t, MaxLogCalls)
    \/ \E r \in Requests : Arrive(r, {"api_logs"}) \/ ApiLogs(r)

SpecLog == InitLog /\ [][NextLog]_vars

(* A burst of safe passes: seven request threads each run
   _safe_refresh_cycle_once, every refresh succeeding.  The threads behave
   alike, so only the schedules in which no thread overtakes the one that
   arrived before it are followed. *)

Rank(t) ==
    CASE pc[t] = "idle" -> 0
      [] pc[t] = "safe_discover" -> 1
      [] pc[t] = "safe_peek" -> 2
      [] pc[t] = "iter" /\ loc[t].i <= 1 -> 3
      [] pc[t] = "elig" -> 4
      [] pc[t] = "ms_last" -> 5
      [] pc[t] = "ms_fail" -> 6
      [] pc[t] = "ms_next" -> 7
      [] pc[t] = "ms_quar" -> 8
      [] pc[t] = "sleep" -> 9
      [] OTHER -> 10

Behind(k) == IF k = 1 THEN TRUE ELSE Rank(Callers[k]) < Rank(Callers[k - 1])

NextBurst ==
    \/ \E k \in 1..Len(Callers) : Behind(k) /\ Arrive(Callers[k], {"safe_discover"})
    \/ \E k \in 1..Len(Callers) : Behind(k) /\ SafeDiscover(Callers[k], {Profiles})
    \/ \E k \in 1..Len(Callers) : Behind(k) /\ SafePeek(Callers[k])
    \/ \E k \in 1..Len(Callers) : Behind(k) /\ Iter(Callers[k])
    \/ \E k \in 1..Len(Callers) : Behind(k) /\ Elig(Callers[k], {"ms_last"})
    \/ \E k \in 1..Len(Callers) : Behind(k) /\ MarkSuccess(Callers[k])
    \/ \E k \in 1..Len(Callers) : Behind(k) /\ Sleep(Callers[k])

SpecBurst == Init /\ [][NextBurst]_vars

----------------------------------------------------------------------------
(* Persistence: _save_state and _load_state *)

(* a Python number of a persisted record: an int or a float, in thousandths,
   so that the fraction of a time.time() value is there to lose *)
PyInt(n) == [ty |-> "int", ms |-> n * 1000]
PyFloat(ms) == [ty |-> "float", ms |-> ms]

(* int(v): truncation toward zero *)
ToInt(v) ==
    [ty |-> "int",
     ms |-> IF v.ms >= 0 THEN (v.ms \div 1000) * 1000
            ELSE 0 - (((0 - v.ms) \div 1000) * 1000)]

(* float(v) *)
FloatTruncated(v) == ToInt(v)
ToFloat(v) == [ty |-> "float", ms |-> v.ms]

(* bool(v) of a JSON true or false *)
ToBool(v) == v = TRUE

(* v.get(k, d) *)
Get(v, k, d) == IF k \in DOMAIN v THEN v[k] ELSE d

(* the record _load_state builds from a saved one *)
LoadRecord(v) ==
    [last_refresh |-> ToFloat(Get(v, "last_refresh", PyInt(0))),
     failures |-> ToInt(Get(v, "failures", PyInt(0))),
     next_allowed |-> ToFloat(Get(v, "next_allowed", PyInt(0))),
     quarantined |-> ToBool(Get(v, "quarantined", FALSE))]

(* dict.update *)
Update(d, e) ==
    [k \in (DOMAIN d) \cup (DOMAIN e) |-> IF k \in DOMAIN e THEN e[k] ELSE d[k]]

(* the autosave interval is over, or the process exits: _save_state *)
SvArrive(s) ==
    /\ pc[s] = "idle"
    /\ Goto(s, "sv_snap")
    /\ UNCHANGED <<Shared, now, loc, History, part, Persist>>
    /\ Track

(* with _state_lock: data = {references to the three dicts, "ts": time.time()} *)
SvSnapshot(s) ==
    /\ pc[s] = "sv_snap"
    /\ LockFree
    /\ loc' = [loc EXCEPT ![s].tmp = now]
    /\ Goto(s, "sv_open")
    /\ UNCHANGED <<Shared, now, History, part, Persist>>
    /\ Track

(* open(STATE_FILENAME, "w") truncates the file *)
SvOpen(s) ==
    /\ pc[s] = "sv_open"
    /\ disk' = [NoFile EXCEPT !.exists = TRUE]
    /\ Goto(s, "sv_rot")
    /\ UNCHANGED <<Shared, now, loc, History, part, profile_proxies, LogVars, dly>>
    /\ Track

(* json.dump walks the live dicts, outside the lock: rotation_state first *)
SvRot(s) ==
    /\ pc[s] = "sv_rot"
    /\ disk' = [disk EXCEPT !.rotation_state = rotation_state]
    /\ Goto(s, "sv_prof")
    /\ UNCHANGED <<Shared, now, loc, History, part, profile_proxies, LogVars, dly>>
    /\ Track

SvProf(s) ==
    /\ pc[s] = "sv_prof"
    /\ disk' = [disk EXCEPT !.profile_state = profile_state]
    /\ Goto(s, "sv_prox")
    /\ UNCHANGED <<Shared, now, loc, History, part, profile_proxies, LogVars, dly>>
    /\ Track

(* profile_proxies and ts; the file is closed *)
SvProx(s) ==
    /\ pc[s] = "sv_prox"
    /\ disk' = [disk EXCEPT !.profile_proxies = profile_proxies,
                            !.ts = loc[s].tmp, !.complete = TRUE]
    /\ loc' = [loc EXCEPT ![s].why = "saved"]
    /\ Goto(s, "idle")
    /\ UNCHANGED <<Shared, now, History, part, profile_proxies, LogVars, dly>>
    /\ Track

SaveState(s) ==
    SvArrive(s) \/ SvSnapshot(s) \/ SvOpen(s) \/ SvRot(s) \/ SvProf(s) \/ SvProx(s)

(* the process is started again: module-level state is fresh, the main
   thread is about to call _load_state *)
Restart(s) ==
    /\ \A t \in Threads : pc[t] \in {"idle", "dead"}
    /\ profile_state' = NoRecords
    /\ rotation_state' = RotationInit
    /\ profile_proxies' = NoProxies
    /\ stop_event' = FALSE
    /\ refresh_thread' = NoThread
    /\ lock' = NoThread
    /\ loc' = [t \in Threads |-> LocInit]
    /\ pc' = [t \in Threads |->
                IF t = s THEN "ld_open" ELSE IF t \in Workers THEN "dead" ELSE "idle"]
    /\ activity_log' = <<>> /\ reply' = <<>>
    /\ logCount' = 0 /\ logCalls' = 0
    /\ UNCHANGED <<now, History, part, disk, dly>>
    /\ Track

(* _load_state: no file, a file json.load cannot read, or the update of the
   three dicts under the lock *)
LoadState(s) ==
    /\ pc[s] = "ld_open"
    /\ IF ~disk.exists
       THEN /\ loc' = [loc EXCEPT ![s].why = "fresh"]
            /\ UNCHANGED <<profile_state, rotation_state, profile_proxies>>
       ELSE IF ~disk.complete
       THEN /\ loc' = [loc EXCEPT ![s].why = "failed"]
            /\ UNCHANGED <<profile_state, rotation_state, profile_proxies>>
       ELSE /\ LockFree
            /\ rotation_state' = Update(rotation_state, disk.rotation_state)
            /\ profile_state' =
                 [k \in (DOMAIN profile_state) \cup (DOMAIN disk.profile_state) |->
                    IF k \in DOMAIN disk.profile_state
                    THEN LoadRecord(disk.profile_state[k])
                    ELSE profile_state[k]]
            /\ profile_proxies' = Update(profile_proxies, disk.profile_proxies)
            /\ loc' = [loc EXCEPT ![s].why = "loaded"]
    /\ Goto(s, "idle")
    /\ UNCHANGED <<stop_event, refresh_thread, lock, now, History, part, disk, LogVars, dly>>
    /\ Track

(* the proxies a request assigns: none, or one for "Default" *)
SnapProxies == {NoProxies, [q \in {"Default"} |-> "http://10.0.0.1:8080"]}

(* api_add_proxies: profile_proxies[profile] = proxy, without the lock *)
AddProxies(r) ==
    /\ pc[r] = "add_proxies"
    /\ \E q \in SnapProxies : profile_proxies' = Update(profile_proxies, q)
    /\ Goto(r, "idle")
    /\ UNCHANGED <<Shared, now, loc, History, part, disk, LogVars, dly>>
    /\ Track

(* Save while the engine runs: the saver, one background loop whose
   refreshes succeed, and a request thread that starts the loop and sets
   proxies *)
NextSave ==
    \/ \E s \in Savers : SaveState(s)
    \/ WLoop("w1", {Profiles}) \/ Advance("w1", MaxSaveAdvances) \/ WDone("w1")
    \/ PassOk("w1")
    \/ \E r \in Requests :
         \/ Arrive(r, {"start_check", "add_proxies"})
         \/ StartCheck(r) \/ StartLaunch(r, <<"w1">>)
         \/ AddProxies(r)

SpecSave == Init /\ [][NextSave]_vars

(* Snapshot round trip: the engine holds any state of up to three records,
   each new, healthy after a success, backing off or quarantined, with a
   rotation cursor and proxies; it saves, is started again and loads *)

SnapNames == {"Default", "Profile 1", "Profile 2"}

SnapRecords ==
    {[last_refresh |-> PyInt(0), failures |-> PyInt(0),
      next_allowed |-> PyInt(0), quarantined |-> FALSE],
     [last_refresh |-> PyFloat(BootTime * 1000 - 2750), failures |-> PyInt(0),
      next_allowed |-> PyFloat(BootTime * 1000 - 2750), quarantined |-> FALSE],
     [last_refresh |-> PyFloat(1500), failures |-> PyInt(1),
      next_allowed |-> PyFloat(BootTime * 1000 + 119250), quarantined |-> FALSE],
     [last_refresh |-> PyInt(0), failures |-> PyInt(3),
      next_allowed |-> PyFloat(BootTime * 1000 + 479125), quarantined |-> TRUE]}

InitSnapshot ==
    /\ \E D \in SUBSET SnapNames : profile_state \in [D -> SnapRecords]
    /\ \E g \in -1..(rotation_groups - 1), ts \in {0, BootTime - 3} :
         rotation_state = [groups |-> rotation_groups, last_group |-> g,
                           last_cycle_ts |-> ts]
    /\ profile_proxies \in SnapProxies
    /\ disk = NoFile
    /\ seen = {}
    /\ LogInit
    /\ stop_event = FALSE
    /\ refresh_thread = NoThread
    /\ lock = NoThread
    /\ now = BootTime
    /\ loc = [t \in Threads |-> LocInit]
    /\ advCount = 0
    /\ cursorHist = <<-1>>
    /\ epoch = [t \in Threads |-> -1]
    /\ stopPending = [w \in Workers |-> FALSE]
    /\ pc = [t \in Threads |-> IF t \in Workers THEN "dead" ELSE "idle"]
    /\ part = PartIdle
    /\ dly = DelayIdle

NextSnapshot == \E s \in Savers : SaveState(s) \/ Restart(s) \/ LoadState(s)

SpecSnapshot == InitSnapshot /\ [][NextSnapshot]_vars

(* The users of _state_lock together, from boot: the saver (the load at
   boot, then saves), the background loop selecting its group, and a request
   thread that starts the loop, reads the summary and the log; the saver
   also logs.  What a thread does once it has arrived is
   its own step; arrivals are the environment's. *)
BootFiles ==
    {NoFile,
     [NoFile EXCEPT !.exists = TRUE, !.complete = TRUE,
                    !.rotation_state = [RotationInit EXCEPT !.last_group = 0]]}

InitLock ==
    /\ profile_state = NoRecords
    /\ rotation_state = RotationInit
    /\ stop_event = FALSE
    /\ refresh_thread = NoThread
    /\ lock = NoThread
    /\ now = 0
    /\ loc = [t \in Threads |-> LocInit]
    /\ advCount = 0
    /\ cursorHist = <<-1>>
    /\ epoch = [t \in Threads |-> -1]
    /\ stopPending = [w \in Workers |-> FALSE]
    /\ profile_proxies = NoProxies
    /\ disk \in BootFiles
    /\ seen = {}
    /\ LogInit
    /\ pc = [t \in Threads |-> IF t \in Workers THEN "dead"
                                ELSE IF t \in Savers THEN "ld_open" ELSE "idle"]
    /\ part = PartIdle
    /\ dly = DelayIdle
LockUsers == {"w1"} \cup Savers \cup Requests

StepOf(t) ==
    IF t \in Workers
    THEN \/ WLoop(t, {Profiles})
         \/ Advance(t, MaxLockAdvances) \/ WDone(t) \/ PassOk(t)
    ELSE IF t \in Savers
    THEN \/ SvSnapshot(t) \/ SvOpen(t) \/ SvRot(t) \/ SvProf(t) \/ SvProx(t)
         \/ LoadState(t)
         \/ LgAcquire(t) \/ LgAppend(t) \/ LgTrim(t) \/ LgPrint(t)
    ELSE \/ StartCheck(t) \/ StartLaunch(t, <<"w1">>)
         \/ Summary(t) \/ ApiLogs(t)

NextLock ==
    \/ WLoop("w1", {Profiles})
    \/ Advance("w1", MaxLockAdvances) \/ WDone("w1") \/ PassOk("w1")
    \/ \E s \in Savers :
         \/ SaveState(s) \/ LoadState(s)
         \/ Log(s, MaxLockLogs)
    \/ \E r \in Requests :
         \/ Arrive(r, {"start_check", "summary", "api_logs"})
         \/ StartCheck(r) \/ StartLaunch(r, <<"w1">>)
         \/ Summary(r) \/ ApiLogs(r)

(* every thread that can take a step keeps running, and a thread that finds
   the lock free again and again gets it *)
SpecLockFair ==
    /\ InitLock
    /\ [][NextLock]_vars
    /\ \A t \in LockUsers : SF_vars(StepOf(t))

----------------------------------------------------------------------------
(* Claims *)

(* positions inside _mark_success, _mark_failure, the long break and
   api_quarantine_reset *)
UpdatePcs == {"ms_last", "ms_fail", "ms_next", "ms_quar",
              "mf_read", "mf_write", "mf_backoff", "mf_next", "mf_check", "mf_quar",
              "brk", "rq_get", "rq_fail", "rq_next", "rq_quar"}

(* some thread is in the middle of an update of p's record *)
InUpdate(p) == \E t \in Threads : pc[t] \in UpdatePcs /\ loc[t].prof = p

(* C1: in every reachable state, every health record that is quarantined has
   consecutive failures at or above the quarantine threshold, under every
   interleaving of failure, success and break events of the passes with
   quarantine resets.  Stated for the states in which no call is in the
   middle of updating the record, the only ones a record updated under the
   lock would show. *)
C1_QuarantinedImpliesThreshold ==
    \A p \in DOMAIN profile_state :
        (~InUpdate(p) /\ profile_state[p].quarantined)
            => profile_state[p].failures >= failure_quarantine_threshold

(* a failure event completes its increment: the store of failures + 1 *)
FailureStored(t) == pc[t] = "mf_write" /\ pc'[t] = "mf_backoff"

(* no failure increment is lost: the store raises the counter by one *)
NoLostFailure ==
    \A t \in Threads :
        FailureStored(t) =>
            profile_state'[loc[t].prof].failures
                = profile_state[loc[t].prof].failures + 1

(* C3: every mutation of shared engine state (health records, lazy record
   creation, rotation cursor, quarantine reset) is made while the state lock
   is held, so that no update is lost: each of two concurrent failures on one
   entity raises consecutiveFailures by one. *)
C3_MutationsHoldLock ==
    [][ /\ (profile_state' # profile_state \/ rotation_state' # rotation_state)
            => lock # NoThread
        /\ NoLostFailure ]_vars

(* _mark_success, _mark_failure return *)
SuccessDone(t) == pc[t] = "ms_quar" /\ pc'[t] # "ms_quar"
FailureDone(t) == pc[t] \in {"mf_check", "mf_quar"} /\ pc'[t] = AfterMark(t)

(* C2: for every entity and every sequence of events, consecutiveFailures
   rises only through a failure event and then by exactly 1; right after a
   success it is 0, quarantined is false and nextEligibleAt is the time of the
   success; a failure event ends quarantined exactly when it brought the
   failures to the threshold or above; quarantined goes from true to false
   only through a success or a quarantine reset. *)
C2_HealthTransitions ==
    [][ \A p \in ProfileNames :
          /\ Fails(profile_state', p) > Fails(profile_state, p)
                => /\ \E t \in Threads : FailureStored(t) /\ loc[t].prof = p
                   /\ Fails(profile_state', p) = Fails(profile_state, p) + 1
          /\ \A t \in Threads :
                (SuccessDone(t) /\ loc[t].prof = p)
                    => /\ profile_state'[p].failures = 0
                       /\ ~profile_state'[p].quarantined
                       /\ profile_state'[p].last_refresh <= profile_state'[p].next_allowed
                       /\ profile_state'[p].next_allowed <= now
          /\ \A t \in Threads :
                (pc[t] = "ms_next" /\ pc'[t] = "ms_quar" /\ loc[t].prof = p)
                    => profile_state'[p].next_allowed = now
          /\ \A t \in Threads :
                (FailureDone(t) /\ loc[t].prof = p)
                    => (profile_state'[p].quarantined
                          <=> profile_state'[p].failures >= failure_quarantine_threshold)
          /\ (~Quar(profile_state, p) /\ Quar(profile_state', p))
                => /\ \E t \in Threads : pc[t] = "mf_quar" /\ loc[t].prof = p
                   /\ Fails(profile_state, p) >= failure_quarantine_threshold
          /\ (Quar(profile_state, p) /\ ~Quar(profile_state', p))
                => \E t \in Threads : pc[t] \in {"ms_quar", "rq_quar"} /\ loc[t].prof = p
      ]_vars

(* failures quarantined the entity and a success is clearing it: the counter
   is back at 0, nextEligibleAt is the time of the success, and the flag is
   the statement that is left *)
C2_Witness ==
    /\ "Default" \in DOMAIN profile_state
    /\ pc["h"] = "ms_quar"
    /\ profile_state["Default"].quarantined
    /\ profile_state["Default"].failures = 0
    /\ profile_state["Default"].next_allowed = now
    /\ now > 0

(* the backoff the claim gives the k-th consecutive failure: 120, doubled
   k - 1 times, and never more than 86400 *)
RECURSIVE Doubled(_)
Doubled(k) == IF k <= 1 THEN 120 ELSE 2 * Doubled(k - 1)
ClaimedBackoff(k) == IF Doubled(k) > 86400 THEN 86400 ELSE Doubled(k)

(* C7: the k-th consecutive failure (k >= 1) applies the backoff
   min(86400, 120 * 2^(k-1)) and sets nextEligibleAt to now plus that backoff:
   120, 240, 480, ... and never more than 86400. *)
C7_BackoffExact ==
    [][ \A t \in Threads :
          (pc[t] = "mf_next" /\ pc'[t] = "mf_check")
              => LET k == profile_state'[loc[t].prof].failures
                 IN  /\ k >= 1
                     /\ loc[t].tmp = ClaimedBackoff(k)
                     /\ loc[t].tmp <= 86400
                     /\ (k = 1 => loc[t].tmp = 120)
                     /\ (k = 2 => loc[t].tmp = 240)
                     /\ (k = 3 => loc[t].tmp = 480)
                     /\ profile_state'[loc[t].prof].next_allowed = now + loc[t].tmp
      ]_vars

(* the eleventh consecutive failure has just applied the capped backoff *)
C7_Witness ==
    /\ pc["h"] = "mf_check"
    /\ profile_state["Default"].failures = 11
    /\ profile_state["Default"].next_allowed = now + 86400

RECURSIVE Concat(_)
Concat(gs) == IF gs = <<>> THEN <<>> ELSE Head(gs) \o Concat(Tail(gs))

RECURSIVE SumLen(_)
SumLen(gs) == IF gs = <<>> THEN 0 ELSE Len(Head(gs)) + SumLen(Tail(gs))

Members(g) == {g[i] : i \in 1..Len(g)}

(* what the claim says of the groups but the size clause: N contiguous groups
   in input order, the same on a repeated call, sizes summing to the total,
   no entity in two groups, and the example of five entities in three groups *)
PartitionShape ==
    part.calls = 2 =>
        /\ Len(part.out) = part.n
        /\ part.again = part.out
        /\ Concat(part.out) = part.list
        /\ SumLen(part.out) = Len(part.list)
        /\ \A i, j \in 1..part.n :
              i # j => Members(part.out[i]) \cap Members(part.out[j]) = {}
        /\ (part.list = <<"a", "b", "c", "d", "e">> /\ part.n = 3)
              => part.out = << <<"a", "b">>, <<"c", "d">>, <<"e">> >>

(* all groups except possibly the last have equal size, within 1 *)
AllButLastWithinOne ==
    part.calls = 2 =>
        \A i, j \in 1..(part.n - 1) :
            Len(part.out[i]) - Len(part.out[j]) <= 1

(* C8 as claimed: for every ordered entity list and every group count N >= 1
   the partition is N contiguous groups in input order, identical on repeated
   calls, sizes summing to the total, no entity in two groups, and all groups
   except possibly the last of equal size within 1. *)
C8_PartitionAsClaimed == PartitionShape /\ AllButLastWithinOne

(* C8 as amended: the same, with the size clause: no group is larger than the
   first, sizes never grow along the groups, at most one non-empty group is
   smaller than the first (the groups after it are empty); all groups except
   possibly the last are within 1 of each other when N <= 4, which covers the
   configured 3 groups. *)
C8_Partition ==
    /\ PartitionShape
    /\ part.calls = 2 =>
        /\ \A i, j \in 1..part.n :
              i < j => Len(part.out[i]) >= Len(part.out[j])
        /\ Cardinality({i \in 1..part.n :
              0 < Len(part.out[i]) /\ Len(part.out[i]) < Len(part.out[1])}) <= 1
        /\ part.n <= 4 =>
              \A i, j \in 1..(part.n - 1) :
                  Len(part.out[i]) - Len(part.out[j]) <= 1

(* six entities in five groups were partitioned: three groups of two and two
   empty trailing groups *)
C8_Witness ==
    /\ part.calls = 2
    /\ part.n = 5
    /\ Len(part.list) = 6
    /\ Len(part.out[3]) = 2
    /\ Len(part.out[4]) = 0

(* positions of a pass over a non-empty selected group *)
PassPcs == {"iter", "elig", "brk", "sleep", "ms_last", "ms_fail", "ms_next",
            "ms_quar", "mf_read", "mf_write", "mf_backoff", "mf_next",
            "mf_check", "mf_quar"}

Processing(t) == pc[t] \in PassPcs /\ loc[t].grp # <<>>

(* C4 as claimed: group selection is atomic with respect to concurrent
   callers: the background loop and a concurrently running safe pass never
   both select and process the same group index derived from the same cursor
   value. *)
C4_SelectionExclusive ==
    \A w \in Workers, r \in Requests :
        (Processing(w) /\ Processing(r) /\ epoch[w] = epoch[r])
            => loc[w].gidx # loc[r].gidx

(* C4 as amended: the cursor advance is atomic among the callers that
   advance: no two background loops hold a group index derived from the same
   cursor value; the safe pass only peeks and may select the index the
   background loop derives from the same cursor value. *)
C4_AdvanceAtomic ==
    \A v, w \in Workers :
        (v # w /\ epoch[v] >= 0 /\ epoch[w] >= 0) => epoch[v] # epoch[w]

(* two background loops are each in a pass over a group they selected *)
C4_Witness ==
    \E v, w \in Workers :
        /\ v # w
        /\ Processing(v) /\ Processing(w)
        /\ epoch[v] >= 0 /\ epoch[w] > epoch[v]

(* C5: start() is idempotent: called while the background loop is running it
   launches no second loop and leaves the cancellation signal as it is;
   called when no loop is running it launches exactly one. *)
C5_StartIdempotent ==
    [][ \A r \in Requests :
          (pc[r] = "start_launch" /\ pc'[r] = "idle")
              => /\ AliveWorkers # {}
                    => (AliveWorkers' = AliveWorkers /\ stop_event' = stop_event)
                 /\ AliveWorkers = {} => Cardinality(AliveWorkers') = 1
      ]_vars

(* C6: after stop() on a running scheduler the background loop leaves at its
   next cancellation check, between cycles or between entities, and
   processes no further entity after that check. *)
C6_StopObserved ==
    [][ \A w \in Workers :
          stopPending[w]
              => /\ (pc[w] = "w_loop" /\ pc'[w] # "w_loop") => pc'[w] = "dead"
                 /\ (pc[w] = "iter" /\ pc'[w] # "iter") => pc'[w] = "w_done"
      ]_vars

(* C9 as claimed: from any reachable cursor state, the initial
   lastGroupIndex = -1 included, groupCount consecutive advances bring the
   index back to its starting value. *)
C9_RoundRobinFromAny ==
    Len(cursorHist) = rotation_groups + 1
        => cursorHist[rotation_groups + 1] = cursorHist[1]

(* C9 as amended: from any cursor state with lastGroupIndex in
   [0, groupCount-1], groupCount consecutive advances bring the index back to
   its starting value; from the initial -1 they bring it to groupCount-1, and
   -1 is never a value again. *)
C9_RoundRobin ==
    /\ Len(cursorHist) = rotation_groups + 1
        => /\ cursorHist[1] >= 0
                => cursorHist[rotation_groups + 1] = cursorHist[1]
           /\ cursorHist[1] = -1
                => cursorHist[rotation_groups + 1] = rotation_groups - 1
    /\ \A i \in 2..Len(cursorHist) : cursorHist[i] # -1

(* groupCount advances were made from the cursor value 0 *)
C9_Witness ==
    /\ Len(cursorHist) = rotation_groups + 1
    /\ cursorHist[1] = 0
    /\ advCount = rotation_groups + 1

(* C10: each call of nextGroupIndex returns and stores
   (lastGroupIndex + 1) mod groupCount: from -1 with groupCount = 3 four
   calls yield 0, 1, 2, 0, and lastGroupIndex is always in
   [-1, groupCount-1]. *)
C10_NextGroupIndex ==
    /\ rotation_state.last_group \in -1..(rotation_state.groups - 1)
    /\ rotation_state.groups = 3
    /\ advCount = 0 => cursorHist = <<-1>>
    /\ advCount = 1 => cursorHist = <<-1, 0>>
    /\ advCount = 2 => cursorHist = <<-1, 0, 1>>
    /\ advCount = 3 => cursorHist = <<-1, 0, 1, 2>>
    /\ advCount = 4 => cursorHist = <<0, 1, 2, 0>>
    /\ advCount >= 1 => rotation_state.last_group = (advCount - 1) % 3
    /\ cursorHist[Len(cursorHist)] = rotation_state.last_group
    /\ \A w \in Workers :
          pc[w] \in PassPcs => loc[w].gidx = epoch[w] % 3

(* the fourth call has returned 0 to the loop that made it *)
C10_Witness ==
    /\ advCount = 4
    /\ cursorHist = <<0, 1, 2, 0>>
    /\ \E w \in Workers : pc[w] \in PassPcs /\ loc[w].gidx = 0 /\ epoch[w] = 3

(* the record a pass finds for p: the default record when none exists *)
RecordOf(p) == EnsureProfileState(profile_state, p)[p]

(* _is_allowed_to_refresh returns to the pass that called it *)
EligDone(t) == pc[t] = "elig" /\ pc'[t] # "elig"

(* C11: isEligible(record, now) returns (false, quarantined) whenever the
   record is quarantined, whatever nextEligibleAt is; otherwise
   (false, backoff) whenever now < nextEligibleAt; otherwise eligible.  An
   ineligible entity is skipped, an eligible one goes on to the long-break
   draw and the refresh. *)
C11_IsEligible ==
    [][ \A t \in Threads :
          EligDone(t) =>
            LET st == RecordOf(loc[t].prof)
            IN  /\ st.quarantined
                    => (loc'[t].why = "quarantined" /\ pc'[t] = "iter")
                /\ (~st.quarantined /\ now < st.next_allowed)
                    => (loc'[t].why = "backoff" /\ pc'[t] = "iter")
                /\ (~st.quarantined /\ ~(now < st.next_allowed))
                    => (loc'[t].why = "none" /\ pc'[t] \in Outcomes)
      ]_vars

(* a pass was told "quarantined" for a record whose nextEligibleAt is still
   in the future *)
C11_Witness ==
    \E t \in Threads :
        /\ pc[t] = "iter"
        /\ loc[t].why = "quarantined"
        /\ loc[t].prof \in DOMAIN profile_state
        /\ profile_state[loc[t].prof].quarantined
        /\ profile_state[loc[t].prof].next_allowed > now

(* _save_state has written the file; _load_state has read a complete file *)
SaveDone(t) == pc[t] = "sv_prox" /\ pc'[t] = "idle"
LoadDone(t) == pc[t] = "ld_open" /\ pc'[t] = "idle" /\ disk.complete

(* equality of Python numbers: 0 == 0.0 *)
PyEq(a, b) == a.ms = b.ms

SameRecord(a, b) ==
    /\ PyEq(a.last_refresh, b.last_refresh)
    /\ PyEq(a.failures, b.failures)
    /\ PyEq(a.next_allowed, b.next_allowed)
    /\ a.quarantined = b.quarantined

(* C12: snapshot round trip: for every valid state (rotation state, health
   records, proxy assignments) a save writes exactly that state, and loading
   the file into a freshly started engine reproduces exactly the same
   rotation state, health records and proxy assignments. *)
C12_RoundTrip ==
    [][ \A t \in Savers :
          /\ SaveDone(t)
                => /\ disk'.rotation_state = rotation_state
                   /\ disk'.profile_state = profile_state
                   /\ disk'.profile_proxies = profile_proxies
          /\ LoadDone(t)
                => /\ profile_state = NoRecords /\ profile_proxies = NoProxies
                   /\ rotation_state' = disk.rotation_state
                   /\ DOMAIN profile_state' = DOMAIN disk.profile_state
                   /\ \A k \in DOMAIN disk.profile_state :
                         SameRecord(profile_state'[k], disk.profile_state[k])
                   /\ profile_proxies' = disk.profile_proxies
      ]_vars

(* a state with a quarantined, a backing-off and a healthy entity, a proxy
   and an advanced cursor has been saved and loaded again *)
C12_Witness ==
    /\ pc["s"] = "idle" /\ loc["s"].why = "loaded"
    /\ \E a, b, c \in DOMAIN profile_state :
          /\ profile_state[a].quarantined
          /\ ~profile_state[b].quarantined
          /\ profile_state[b].next_allowed.ms > now * 1000
          /\ profile_state[b].next_allowed.ms % 1000 # 0
          /\ ~profile_state[c].quarantined
          /\ profile_state[c].next_allowed.ms <= now * 1000
          /\ profile_state[c].last_refresh.ty = "float"
    /\ profile_proxies # NoProxies
    /\ rotation_state.last_group = 2
    /\ rotation_state.last_cycle_ts > 0

(* a statement of api_quarantine_reset has run *)
RqStep(t, from) == pc[t] = from /\ pc'[t] # from

(* C13: resetQuarantine(id) returns notFound and leaves every health record
   and the rotation state unchanged, creating no record, when no record
   exists for id; when a record exists it sets that record to
   consecutiveFailures = 0, immediately eligible, quarantined = false, does
   not remove it, and changes no other entity's record. *)
C13_ResetQuarantine ==
    [][ \A t \in Threads :
          LET p == loc[t].prof
          IN  /\ RqStep(t, "rq_get")
                    => /\ (p \notin DOMAIN profile_state) <=> (pc'[t] = "rq_404")
                       /\ (p \in DOMAIN profile_state) <=> (pc'[t] = "rq_fail")
                       /\ profile_state' = profile_state
              /\ RqStep(t, "rq_404")
                    => /\ profile_state' = profile_state
                       /\ p \notin DOMAIN profile_state'
                       /\ pc'[t] = "idle"
              /\ (\E from \in {"rq_get", "rq_404", "rq_fail", "rq_next", "rq_quar"} :
                     RqStep(t, from))
                    => /\ rotation_state' = rotation_state
                       /\ DOMAIN profile_state' = DOMAIN profile_state
                       /\ \A q \in DOMAIN profile_state :
                             q # p => profile_state'[q] = profile_state[q]
              /\ RqStep(t, "rq_quar")
                    => /\ profile_state'[p].failures = 0
                       /\ profile_state'[p].next_allowed = 0
                       /\ ~profile_state'[p].quarantined
                       /\ profile_state'[p].last_refresh = profile_state[p].last_refresh
                       /\ IsAllowedToRefresh(profile_state'[p], now)[1]
                       /\ pc'[t] = "idle"
      ]_vars

(* the reset of a quarantined record whose backoff still runs has cleared the
   failures and the backoff and is about to clear the flag, with the record
   of another entity present *)
C13_Witness ==
    /\ pc["h"] = "rq_quar"
    /\ loc["h"].prof = "Default"
    /\ DOMAIN profile_state = ProfileNames
    /\ profile_state["Default"].quarantined
    /\ profile_state["Default"].failures = 0
    /\ profile_state["Default"].next_allowed = 0
    /\ profile_state["Profile 1"].last_refresh > 0

(* the thread is refreshing an entity: inside the try block of a pass, from
   the refresh to the end of _mark_success or _mark_failure *)
RefreshPcs == {"ms_last", "ms_fail", "ms_next", "ms_quar", "mf_read", "mf_write",
               "mf_backoff", "mf_next", "mf_check", "mf_quar"}

InProgress == {t \in Threads : pc[t] \in RefreshPcs}

(* C14: the global concurrency cap is respected: at no time are more than
   max_concurrent_refreshes (6) entity refreshes in progress at once,
   counting the background pass and all concurrently running on-demand
   passes. *)
C14_ConcurrencyCap == Cardinality(InProgress) <= max_concurrent_refreshes

(* the pass moves on to the next entity *)
MovesOn(t) == pc[t] \in PassPcs /\ pc[t] # "iter" /\ pc'[t] = "iter"

(* C15: in every pass the per-entity throttle sleep follows every entity that
   was found eligible, whatever its outcome (succeeded, failed, or skipped
   because the long-break draw triggered), and does not follow an entity
   skipped for ineligibility, which moves on to the next entity at once. *)
C15_ThrottleAfterEligible ==
    [][ \A t \in Workers \cup Requests :
          MovesOn(t) =>
              IF loc'[t].why = "none"
              THEN pc[t] = "sleep"
              ELSE pc[t] = "elig"
      ]_vars

SuccessPcs == {"ms_last", "ms_fail", "ms_next", "ms_quar"}

(* C16: once an entity's record is quarantined, no pass (background or
   on-demand) refreshes it or marks it successful until the quarantine has
   been cleared by resetQuarantine, under every interleaving of a background
   pass, on-demand passes and failure events on that entity. *)
C16_QuarantineHolds ==
    [][ \A p \in DOMAIN profile_state :
          profile_state[p].quarantined
              => /\ ~profile_state'[p].quarantined
                       => \E t \in Threads : pc[t] = "rq_quar" /\ loc[t].prof = p
                 /\ \A t \in Workers \cup Requests :
                       loc[t].prof = p
                           => /\ ~(pc[t] = "elig" /\ pc'[t] \in Outcomes)
                              /\ ~(pc[t] \in SuccessPcs /\ pc'[t] # pc[t])
      ]_vars

(* a background loop starts the pass of a cycle *)
CycleStarts(w) == pc[w] \notin PassPcs /\ pc'[w] \in PassPcs

(* C17: the rotation state (lastGroupIndex, lastCycleStartedAt) is mutated
   only by the group-selection step of a background pass, exactly once per
   cycle start: an on-demand pass only peeks (lastGroupIndex + 1) mod
   groupCount and leaves the rotation state unchanged, as do summary,
   resetQuarantine and a background iteration in which discovery returned no
   entities. *)
C17_RotationFrame ==
    [][ /\ rotation_state' # rotation_state
              => \E w \in Workers :
                    /\ pc[w] = "adv_write" /\ CycleStarts(w)
                    /\ rotation_state'.groups = rotation_state.groups
                    /\ rotation_state'.last_group
                          = (rotation_state.last_group + 1) % rotation_state.groups
        /\ \A w \in Workers :
              /\ CycleStarts(w)
                    => /\ advCount' = advCount + 1
                       /\ rotation_state'.last_group # rotation_state.last_group
                       /\ rotation_state'.last_cycle_ts = now
              /\ (pc[w] = "w_loop" /\ pc'[w] = "w_sleep_empty")
                    => rotation_state' = rotation_state
              /\ (pc[w] = "w_sleep_empty" /\ pc'[w] = "w_loop")
                    => rotation_state' = rotation_state
        /\ advCount' # advCount => \E w \in Workers : CycleStarts(w)
        /\ \A r \in Requests :
              /\ (pc[r] = "safe_peek" /\ pc'[r] = "iter")
                    => /\ rotation_state' = rotation_state
                       /\ loc'[r].gidx
                             = (rotation_state.last_group + 1) % rotation_state.groups
              /\ (pc[r] \in PassPcs \cup {"safe_discover", "summary", "rq_get",
                                          "rq_404", "rq_fail", "rq_next", "rq_quar"}
                    /\ pc'[r] # pc[r])
                    => rotation_state' = rotation_state
      ]_vars

(* a safe pass runs on the group it peeked after the background loop's first
   advance, and the cursor is where that advance left it *)
C17_Witness ==
    /\ \E r \in Requests : pc[r] \in PassPcs /\ loc[r].gidx = 1 /\ epoch[r] = 1
    /\ rotation_state.last_group = 0
    /\ advCount = 1

(* the pass leaves its loop head with the cancellation signal set *)
ChecksWhileSet(t) == pc[t] = "iter" /\ stop_event /\ pc'[t] # "iter"

(* C18: every pass over a group, background or on-demand, checks the
   cancellation signal before each entity and aborts early when it is set,
   processing no further entity and leaving the health records of the
   entities already processed as they were. *)
C18_PassChecksCancellation ==
    [][ \A t \in Workers \cup Requests :
          ChecksWhileSet(t)
              => /\ pc'[t] = AfterPass(t)
                 /\ profile_state' = profile_state
      ]_vars

(* C19: every persisted snapshot is a point-in-time snapshot: the rotation
   state, health records and proxy assignments written by one save all equal
   the in-memory values at one single instant between the save's critical
   section and its end, even when the background pass or control-surface
   operations mutate state while the save is running. *)
C19_PointInTime ==
    [][ \A t \in Savers :
          SaveDone(t)
              => <<disk'.rotation_state, disk'.profile_state,
                   disk'.profile_proxies>> \in seen
      ]_vars

(* C20: no error terminates the background loop: whenever a pass raises an
   unexpected exception (a failing refresh action, a failure in partitioning
   or in group selection included) the loop logs it and starts another pass
   after a short delay; the loop exits only after the cancellation signal is
   set. *)
C20_LoopSurvivesErrors ==
    [][ \A w \in Workers :
          /\ (pc[w] # "dead" /\ pc'[w] = "dead")
                => (pc[w] = "w_loop" /\ stop_event)
          /\ (pc[w] = "w_err" /\ pc'[w] # "w_err") => pc'[w] = "w_loop"
          /\ (pc[w] = "w_loop" /\ pc'[w] # "w_loop" /\ ~stop_event)
                => pc'[w] \in {"adv_acquire", "w_sleep_empty"}
          /\ (pc[w] # "w_err" /\ pc'[w] = "w_err")
                => (lock' # w /\ profile_state' = profile_state
                    /\ rotation_state' = rotation_state)
          /\ (pc[w] = "elig" /\ pc'[w] = "mf_read") => lock' # w
      ]_vars

(* after an exception raised inside the lock by the second group selection,
   the loop is in the next iteration, about to select a group again, with the
   lock free *)
C20_Witness ==
    /\ pc["w1"] = "adv_acquire"
    /\ loc["w1"].why = "raised"
    /\ advCount = 1
    /\ lock = NoThread
    /\ ~stop_event

(* C21: under any number of concurrently logging threads the activity log
   holds at most max_log_items entries, and when an append would exceed the
   bound the oldest entries are the ones dropped: the log is the most recent
   entries in append order.  Stated for every state in which no thread is
   between the append and the trim of one log() call, which it does while
   holding the lock, and for every list GET /logs returned. *)
Recent(l, last) ==
    /\ Len(l) <= max_log_items
    /\ \A i \in 1..Len(l) : l[i] = last - Len(l) + i

C21_LogBounded ==
    /\ (\A t \in Threads : pc[t] # "lg_trim")
          => /\ Recent(activity_log, logCount)
             /\ Len(activity_log) = IF logCount < max_log_items
                                     THEN logCount ELSE max_log_items
    /\ reply # <<>> => Recent(reply, reply[Len(reply)])

(* more than max_log_items entries were appended by interleaved calls, the
   first ones are gone, and GET /logs returned the full recent window *)
C21_Witness ==
    /\ logCount = max_log_items + 2
    /\ lock = NoThread
    /\ Len(activity_log) = max_log_items
    /\ activity_log[1] = 3
    /\ Len(reply) = max_log_items
    /\ reply[1] = 2
    /\ \E t \in Loggers : pc[t] = "lg_acquire"

(* C22: for every group size >= 0 and every jitter draw in
   [-jitterSeconds, +jitterSeconds], perEntityDelay equals
   max(minDelay, max(minDelay, targetCycleMinutes*60 / max(1, groupSize))
   + jitter), multiplied by 1.5 exactly when the current hour is outside the
   active-hours window; in particular it is never below minDelay.  The
   equalities are stated exactly, multiplied through by the group size and
   by 2. *)
DelayN == IF dly.size >= 1 THEN dly.size ELSE 1

(* DelayN times max(minDelay, max(minDelay, target*60 / DelayN) + jitter) *)
ExactTimesN ==
    Max(min_delay_seconds * DelayN,
           Max(min_delay_seconds * DelayN, base_cycle_minutes * 60)
             + dly.jitter * DelayN)

OutsideHours ==
    IF active_hours_start <= active_hours_end
    THEN dly.hour < active_hours_start \/ dly.hour >= active_hours_end
    ELSE dly.hour < active_hours_start /\ dly.hour >= active_hours_end

C22_DelayExact ==
    dly.done =>
      /\ IF OutsideHours
         THEN 2 * DelayN * dly.out = 3 * ExactTimesN
         ELSE DelayN * dly.out = ExactTimesN
      /\ dly.out >= min_delay_seconds

(* C22 amended: the delay is that expression in whole seconds: the quotient
   is rounded down, and so is the product with 1.5; it is never below
   minDelay. *)
WholeSeconds(d) == d * DelayN <= ExactTimesN /\ ExactTimesN < (d + 1) * DelayN

C22_DelayWholeSeconds ==
    dly.done =>
      /\ IF OutsideHours
         THEN LET d == (2 * dly.out + 2) \div 3
              IN  /\ WholeSeconds(d)
                  /\ 2 * dly.out <= 3 * d /\ 3 * d < 2 * dly.out + 2
         ELSE WholeSeconds(dly.out)
      /\ dly.out >= min_delay_seconds

(* a group of 7 at 23h with jitter +1: 1920 / 7 is not whole and neither is
   1.5 * 275 *)
C22_Witness ==
    /\ dly.done
    /\ dly.size = 7 /\ dly.hour = 23 /\ dly.jitter = 1
    /\ dly.out = 412

(* C23: at any time at most one background rotation loop is alive and
   processing entities, after any sequence and interleaving of start() and
   stop() calls, a stop() whose bounded join timed out while the loop was
   sleeping followed by a start() that clears the cancellation signal
   included. *)
C23_SingleLoop ==
    Cardinality({w \in Workers : Processing(w)}) <= 1

(* C24: the state lock never deadlocks: no thread sleeps, performs file I/O
   or calls log() while holding the state lock, so every thread that
   requests the lock (background pass, autosave, load, request handlers)
   eventually acquires it. *)
HolderPcs == {"adv_read", "adv_write", "lg_append", "lg_trim"}

LockRequestPcs == {"adv_acquire", "sv_snap", "ld_open", "summary", "api_logs",
                   "lg_acquire"}

Requesting(t) ==
    /\ pc[t] \in LockRequestPcs
    /\ t \in Workers => advCount < MaxLockAdvances

====
